---- MODULE Spec2Model ----
(***************************************************************************)
(* State-machine model of the fling-fish-ws room server.                   *)
(*                                                                         *)
(*   Spec          the JavaScript room (rooms/PhysicsRoom.js with          *)
(*                 schema/PhysicsState.js), the one index.js registers     *)
(*   SpecTS        the TypeScript room (PhysicsRoom.ts, PhysicsState.ts)   *)
(*   SpecValidator the StateValidator singleton of stateValidator.js       *)
(*                                                                         *)
(* The three share one set of variables; each specification leaves the     *)
(* variables of the others untouched.                                      *)
(***************************************************************************)
EXTENDS Integers, Sequences, FiniteSets, TLC

(* ------------------------------------------------------------------ *)
(* Bounds of the model                                                 *)
(* ------------------------------------------------------------------ *)

\* Number of clock steps the model lets pass.
MaxTicks == 1

\* Session ids the transport hands out; a join may present any of them as
\* its playerId option.
Clients == {"c1", "c2"}
PlayerIds == Clients

\* JavaScript's undefined (a missing option or field).
Undefined == "undefined"

\* One clock step of the room model, in milliseconds.
RoomTimeSteps == {300001}
Epoch == 30000
Horizon == Epoch + MaxTicks * 300001

\* Outcomes of Math.random() the model draws from.
RandomSuffixes == {7}
SpawnFractions == {50}
RandomColors == {<<"#", "5", "c", "d", "6", "5", "c">>}

VARIABLES
  players,              \* state.players: player id -> Player
  sessionIdToPlayerId,  \* PhysicsRoom.sessionIdToPlayerId
  playerIdToSessionId,  \* PhysicsRoom.playerIdToSessionId
  clients,              \* Room.clients: the connected session ids
  now,                  \* Date.now()
  timers,               \* pending clock.setTimeout callbacks (TS room)
  outbox,               \* the broadcasts the last step sent, in order
  justLeft,             \* history: the player the previous step disconnected
  playerStates,         \* StateValidator.playerStates
  lastUpdateTime        \* StateValidator.lastUpdateTime

vars == <<players, sessionIdToPlayerId, playerIdToSessionId, clients, now,
          timers, outbox, justLeft, playerStates, lastUpdateTime>>

roomVars == <<players, sessionIdToPlayerId, playerIdToSessionId, clients,
              timers, outbox, justLeft>>
validatorVars == <<playerStates, lastUpdateTime>>

(* ------------------------------------------------------------------ *)
(* Map and array primitives                                            *)
(* ------------------------------------------------------------------ *)

EmptyMap == [k \in {} |-> Undefined]

MapSet(m, k, v) == [x \in DOMAIN m \cup {k} |-> IF x = k THEN v ELSE m[x]]

MapDelete(m, k) == [x \in DOMAIN m \ {k} |-> m[x]]

MapGet(m, k) == IF k \in DOMAIN m THEN m[k] ELSE Undefined

\* An optional value (a message field, an optional argument): Missing when
\* absent or not of the expected type, Some(v) when present.
Missing == <<>>
Some(v) == <<v>>
IsNumber(field) == field # Missing
Value(field) == field[1]
\* A field passed on without a type check: undefined when it is absent or not
\* a number.
Raw(field) == IF field = Missing THEN Undefined ELSE Value(field)

\* Array.prototype.findIndex on the shape id; 0 stands for JavaScript's -1.
FindIndex(shapes, shapeId) ==
  IF \E i \in 1..Len(shapes) : shapes[i].id = shapeId
  THEN CHOOSE i \in 1..Len(shapes) :
         /\ shapes[i].id = shapeId
         /\ \A j \in 1..(i - 1) : shapes[j].id # shapeId
  ELSE 0

\* Array.prototype.splice(index, 1)
Splice(shapes, i) == SubSeq(shapes, 1, i - 1) \o SubSeq(shapes, i + 1, Len(shapes))

(* ------------------------------------------------------------------ *)
(* schema/PhysicsState.js                                              *)
(* ------------------------------------------------------------------ *)

MAX_VELOCITY == 50
MAX_POSITION_CHANGE == 100
MAX_SHAPES_PER_PLAYER == 5

boundaryWidth == 2400
boundaryHeight == 1800

Vector(x, y) == [x |-> x, y |-> y]

\* new Shape(id, x, y)
Shape(id, x, y, color) ==
  [id |-> id, x |-> x, y |-> y, angle |-> 0, velocity |-> Vector(0, 0),
   lastUpdate |-> now, color |-> color]

\* Shape.setPosition: `angle || this.angle` keeps the angle for 0 and undefined.
setPosition(shape, x, y, angle) ==
  [shape EXCEPT !.x = x, !.y = y,
                !.angle = IF angle = Missing \/ angle = Some(0) THEN @ ELSE Value(angle),
                !.lastUpdate = now]

setVelocity(shape, vx, vy) == [shape EXCEPT !.velocity = Vector(vx, vy)]

setColor(shape, color) == [shape EXCEPT !.color = color, !.lastUpdate = now]

\* new Player(id)
Player == [shapes |-> <<>>, disconnected |-> FALSE, lastActivity |-> now]

addShape(player, shape) ==
  [player EXCEPT !.shapes = Append(@, shape), !.lastActivity = now]

\* Variant of removeShape that drops the first shape when no shape carries
\* the id.
removeShapeOrFirst(player, shapeId) ==
  LET found == FindIndex(player.shapes, shapeId)
      index == IF found = 0 /\ Len(player.shapes) > 0 THEN 1 ELSE found
  IN IF index # 0
     THEN [player EXCEPT !.shapes = Splice(@, index), !.lastActivity = now]
     ELSE player

removeShape(player, shapeId) ==
  LET index == FindIndex(player.shapes, shapeId)
  IN IF index # 0
     THEN [player EXCEPT !.shapes = Splice(@, index), !.lastActivity = now]
     ELSE player

setConnectionStatus(player, connected) ==
  [player EXCEPT !.disconnected = ~connected, !.lastActivity = now]

createPlayer(ps, playerId) ==
  IF playerId \in DOMAIN ps THEN ps ELSE MapSet(ps, playerId, Player)

removePlayer(ps, playerId) == MapDelete(ps, playerId)

\* Variant of markPlayerConnected that records the opposite status.
markPlayerConnectedNegated(ps, playerId, connected) ==
  IF playerId \in DOMAIN ps
  THEN [ps EXCEPT ![playerId] = setConnectionStatus(@, ~connected)]
  ELSE ps

markPlayerConnected(ps, playerId, connected) ==
  IF playerId \in DOMAIN ps
  THEN [ps EXCEPT ![playerId] = setConnectionStatus(@, connected)]
  ELSE ps

\* `${playerId}_${Date.now()}_${Math.floor(Math.random() * 1000)}`
GeneratedShapeId(playerId, suffix) == <<playerId, now, suffix>>

\* Variant of SpawnX whose draws reach 200 units beyond either edge.
SpawnXBeyondEdges(fraction) == (fraction * (boundaryWidth + 400)) \div 100 - 200

\* Math.random() * (boundaryWidth - 100) + 50, for a draw of fraction/100.
SpawnX(fraction) == (fraction * (boundaryWidth - 100)) \div 100 + 50

\* rnd: the draws of Math.random() the call makes.
createShapeForPlayer(ps, playerId, customShapeId, rnd) ==
  IF playerId \notin DOMAIN ps
  THEN ps
  ELSE LET shapeId == IF customShapeId = Undefined
                      THEN GeneratedShapeId(playerId, rnd.suffix)
                      ELSE customShapeId
           x == SpawnX(rnd.fraction)
           y == boundaryHeight - 50
       IN [ps EXCEPT ![playerId] = addShape(@, Shape(shapeId, x, y, rnd.color))]

Draws == [suffix : RandomSuffixes, fraction : SpawnFractions, color : RandomColors]

(* ------------------------------------------------------------------ *)
(* rooms/PhysicsRoom.js                                                *)
(* ------------------------------------------------------------------ *)

Broadcast(type, to, payload) == [type |-> type, to |-> to, payload |-> payload]

\* The loop of onJoin that removes a reconnecting player's extra shapes:
\* for (let i = 1; i < shapes.length; i++) removeShape(shapes[i].id),
\* with i counted from 0 as in the source.
RECURSIVE RemoveExtraShapes(_, _)
RemoveExtraShapes(player, i) ==
  IF i < Len(player.shapes)
  THEN RemoveExtraShapes(removeShape(player, player.shapes[i + 1].id), i + 1)
  ELSE player

\* What the history keeps of a player at its disconnect.
NoDisconnect == [playerId |-> Undefined, at |-> 0, shapes |-> <<>>]

Snapshot(playerId, player) ==
  [playerId |-> playerId, at |-> now,
   shapes |-> [i \in 1..Len(player.shapes) |->
                 [id |-> player.shapes[i].id,
                  x |-> player.shapes[i].x, y |-> player.shapes[i].y,
                  velocity |-> player.shapes[i].velocity]]]

\* The entity store after onJoin(client, {playerId: optPlayerId}).
JoinedPlayers(client, optPlayerId, rnd) ==
  LET playerId == IF optPlayerId # Undefined THEN optPlayerId ELSE client
      isReconnection == optPlayerId # Undefined /\ optPlayerId \in DOMAIN players
  IN IF isReconnection
     THEN LET marked == markPlayerConnected(players, playerId, TRUE)
              n == Len(marked[playerId].shapes)
          IN IF n = 0 THEN createShapeForPlayer(marked, playerId, Undefined, rnd)
             ELSE IF n > 1
                  THEN [marked EXCEPT ![playerId] = RemoveExtraShapes(@, 1)]
                  ELSE marked
     ELSE LET created == createPlayer(players, playerId)
          IN IF Len(created[playerId].shapes) = 0
             THEN createShapeForPlayer(created, playerId, Undefined, rnd)
             ELSE created

OnJoin(client, optPlayerId, rnd) ==
  LET playerId == IF optPlayerId # Undefined THEN optPlayerId ELSE client
      isReconnection == optPlayerId # Undefined /\ optPlayerId \in DOMAIN players
  IN /\ client \notin clients
     /\ clients' = clients \cup {client}
     /\ players' = JoinedPlayers(client, optPlayerId, rnd)
     /\ playerIdToSessionId' = MapSet(playerIdToSessionId, playerId, client)
     /\ sessionIdToPlayerId' = MapSet(sessionIdToPlayerId, client, playerId)
     /\ outbox' = <<>>
     /\ justLeft' = NoDisconnect
     /\ UNCHANGED <<now, timers, validatorVars>>

OnLeave(client) ==
  LET playerId == MapGet(sessionIdToPlayerId, client)
  IN /\ client \in clients
     /\ clients' = clients \ {client}
     /\ IF playerId = Undefined
        THEN /\ outbox' = <<>>
             /\ justLeft' = NoDisconnect
             /\ UNCHANGED <<players, sessionIdToPlayerId, playerIdToSessionId>>
        ELSE /\ players' = removePlayer(players, playerId)
             /\ sessionIdToPlayerId' = MapDelete(sessionIdToPlayerId, client)
             /\ playerIdToSessionId' = MapDelete(playerIdToSessionId, playerId)
             /\ outbox' = <<Broadcast("player_removed", clients \ {client},
                                      [playerId |-> playerId])>>
             /\ justLeft' = IF playerId \in DOMAIN players
                            THEN Snapshot(playerId, players[playerId])
                            ELSE NoDisconnect
     /\ UNCHANGED <<now, timers, validatorVars>>

(* ---- inbound messages ---- *)

threshold == 200

validateShapeData(shapeData) ==
  /\ shapeData.id # Missing
  /\ IsNumber(shapeData.x)
  /\ IsNumber(shapeData.y)
  /\ IsNumber(shapeData.angle)
  /\ shapeData.velocity # Missing
  /\ IsNumber(Value(shapeData.velocity).x)
  /\ IsNumber(Value(shapeData.velocity).y)

isWithinBounds(x, y) ==
  /\ x >= -threshold
  /\ x <= boundaryWidth + threshold
  /\ y >= -threshold
  /\ y <= boundaryHeight + threshold

\* The body of handleShapeUpdate's forEach for one entry.
ApplyShapeData(player, shapeData) ==
  IF ~validateShapeData(shapeData)
  THEN player
  ELSE LET index == FindIndex(player.shapes, Value(shapeData.id))
       IN IF index # 0 /\ isWithinBounds(Value(shapeData.x), Value(shapeData.y))
          THEN [player EXCEPT !.shapes[index] =
                  [setVelocity(setPosition(@, Value(shapeData.x), Value(shapeData.y),
                                           shapeData.angle),
                               Value(Value(shapeData.velocity).x),
                               Value(Value(shapeData.velocity).y))
                   EXCEPT !.lastUpdate = now]]
          ELSE player

\* A null entry of message.shapes. validateShapeData reads shapeData.id first,
\* which raises a TypeError on null; no handler of the room catches it.
NullShapeData == [null |-> TRUE]

RaisesTypeError(shapeData) == "id" \notin DOMAIN shapeData

\* The forEach over message.shapes from entry i on; an entry that raises ends
\* the loop.
RECURSIVE ApplyShapeUpdates(_, _, _)
ApplyShapeUpdates(player, shapes, i) ==
  IF i > Len(shapes)
  THEN player
  ELSE IF RaisesTypeError(shapes[i])
       THEN player
       ELSE ApplyShapeUpdates(ApplyShapeData(player, shapes[i]), shapes, i + 1)

\* Whether the forEach over message.shapes ends by raising.
ShapeUpdateRaises(shapes) ==
  \E i \in 1..Len(shapes) : RaisesTypeError(shapes[i])

\* Variant of ShapeUpdatePlayers that looks the reported shape up in every
\* player's set instead of the sender's.
ShapeUpdatePlayersAnyOwner(client, message) ==
  LET playerId == MapGet(sessionIdToPlayerId, client)
  IN IF message.shapes = Missing \/ playerId = Undefined
        \/ playerId \notin DOMAIN players
     THEN players
     ELSE [p \in DOMAIN players |->
             IF p = playerId
             THEN [ApplyShapeUpdates(players[p], Value(message.shapes), 1)
                   EXCEPT !.lastActivity = now]
             ELSE ApplyShapeUpdates(players[p], Value(message.shapes), 1)]

\* The entity store after handleShapeUpdate(client, message).
ShapeUpdatePlayers(client, message) ==
  LET playerId == MapGet(sessionIdToPlayerId, client)
  IN IF message.shapes = Missing \/ playerId = Undefined
        \/ playerId \notin DOMAIN players
     THEN players
     ELSE [players EXCEPT ![playerId] =
             [ApplyShapeUpdates(@, Value(message.shapes), 1)
              EXCEPT !.lastActivity =
                IF ShapeUpdateRaises(Value(message.shapes)) THEN @ ELSE now]]

HandleShapeUpdate(client, message) ==
  LET playerId == MapGet(sessionIdToPlayerId, client)
  IN /\ players' = ShapeUpdatePlayers(client, message)
     /\ outbox' = <<>>
     /\ justLeft' = NoDisconnect
     /\ UNCHANGED <<sessionIdToPlayerId, playerIdToSessionId, clients, now,
                    timers, validatorVars>>

\* The code path handlePhysicsAction takes.
PhysicsActionPath(client, message) ==
  LET playerId == MapGet(sessionIdToPlayerId, client)
      action == Value(message.action)
  IN IF message.action = Missing THEN "invalid"
     ELSE IF action.type = "" \/ action.shapeId = Missing THEN "invalid"
     ELSE IF playerId = Undefined THEN "no_player_id"
     ELSE IF playerId \notin DOMAIN players THEN "player_not_found"
     ELSE IF FindIndex(players[playerId].shapes, Value(action.shapeId)) = 0
          THEN IF \E other \in DOMAIN players \ {playerId} :
                    FindIndex(players[other].shapes, Value(action.shapeId)) # 0
               THEN "belongs_to_another_player"
               ELSE "shape_not_found"
     ELSE IF action.type = "position"
          THEN IF ~IsNumber(action.x) \/ ~IsNumber(action.y)
               THEN "invalid_position" ELSE "position"
     ELSE IF action.type = "impulse"
          THEN IF \/ action.velocity = Missing
                  \/ ~IsNumber(Value(action.velocity).x)
                  \/ ~IsNumber(Value(action.velocity).y)
               THEN "invalid_velocity" ELSE "impulse"
     ELSE "unknown_type"

\* The shape after an accepted physics action.
ActedShape(shape, action) ==
  IF action.type = "position"
  THEN LET moved == setPosition(shape, Value(action.x), Value(action.y), action.angle)
           sped == IF action.velocity # Missing
                   THEN setVelocity(moved, Raw(Value(action.velocity).x),
                                    Raw(Value(action.velocity).y))
                   ELSE moved
       IN [sped EXCEPT !.lastUpdate = now]
  ELSE [setVelocity(shape, Value(Value(action.velocity).x),
                    Value(Value(action.velocity).y))
        EXCEPT !.lastUpdate = now]

\* The entity store after handlePhysicsAction(client, message).
PhysicsActionPlayers(client, message) ==
  LET playerId == MapGet(sessionIdToPlayerId, client)
      action == Value(message.action)
  IN IF PhysicsActionPath(client, message) \in {"position", "impulse"}
     THEN LET index == FindIndex(players[playerId].shapes, Value(action.shapeId))
          IN [players EXCEPT ![playerId] =
                [@ EXCEPT !.shapes[index] = ActedShape(@, action),
                          !.lastActivity = now]]
     ELSE players

\* {...action, timestamp: Date.now()}
WithTimestamp(action) ==
  [f \in DOMAIN action \cup {"timestamp"} |->
     IF f = "timestamp" THEN now ELSE action[f]]

\* Variant of PhysicsActionOutbox that broadcasts before the ownership check:
\* every action naming a shape is relayed.
PhysicsActionOutboxUnchecked(client, message) ==
  IF PhysicsActionPath(client, message)
       \in {"position", "impulse", "belongs_to_another_player", "shape_not_found"}
  THEN <<Broadcast("physics_action", clients \ {client},
                   [playerId |-> MapGet(sessionIdToPlayerId, client),
                    shapeId |-> Value(Value(message.action).shapeId),
                    action |-> WithTimestamp(Value(message.action))])>>
  ELSE <<>>

\* Variant of PhysicsActionOutbox without the except option: the action is
\* sent to every connected client, the sender included.
PhysicsActionOutboxToAll(client, message) ==
  IF PhysicsActionPath(client, message) \in {"position", "impulse"}
  THEN <<Broadcast("physics_action", clients,
                   [playerId |-> MapGet(sessionIdToPlayerId, client),
                    shapeId |-> Value(Value(message.action).shapeId),
                    action |-> WithTimestamp(Value(message.action))])>>
  ELSE <<>>

\* The broadcasts handlePhysicsAction sends.
PhysicsActionOutbox(client, message) ==
  IF PhysicsActionPath(client, message) \in {"position", "impulse"}
  THEN <<Broadcast("physics_action", clients \ {client},
                   [playerId |-> MapGet(sessionIdToPlayerId, client),
                    shapeId |-> Value(Value(message.action).shapeId),
                    action |-> WithTimestamp(Value(message.action))])>>
  ELSE <<>>

HandlePhysicsAction(client, message) ==
  /\ players' = PhysicsActionPlayers(client, message)
  /\ outbox' = PhysicsActionOutbox(client, message)
  /\ justLeft' = NoDisconnect
  /\ UNCHANGED <<sessionIdToPlayerId, playerIdToSessionId, clients, now,
                 timers, validatorVars>>

\* Variant of CreateShapePlayers that allows shapes up to
\* MAX_SHAPES_PER_PLAYER.
CreateShapePlayersUpToCap(client, rnd) ==
  LET playerId == MapGet(sessionIdToPlayerId, client)
      allowed == /\ playerId # Undefined
                 /\ playerId \in DOMAIN players
                 /\ Len(players[playerId].shapes) < MAX_SHAPES_PER_PLAYER
  IN IF allowed
     THEN createShapeForPlayer(players, playerId,
                               GeneratedShapeId(playerId, rnd.suffix), rnd)
     ELSE players

\* The entity store after handleCreateShape(client).
CreateShapePlayers(client, rnd) ==
  LET playerId == MapGet(sessionIdToPlayerId, client)
      allowed == /\ playerId # Undefined
                 /\ playerId \in DOMAIN players
                 /\ Len(players[playerId].shapes) = 0
  IN IF allowed
     THEN createShapeForPlayer(players, playerId,
                               GeneratedShapeId(playerId, rnd.suffix), rnd)
     ELSE players

HandleCreateShape(client, rnd) ==
  /\ players' = CreateShapePlayers(client, rnd)
  /\ outbox' = <<>>
  /\ justLeft' = NoDisconnect
  /\ UNCHANGED <<sessionIdToPlayerId, playerIdToSessionId, clients, now,
                 timers, validatorVars>>

\* Variant of RemoveShapePlayers that takes the session id for the player id
\* when the connection resolves to no player.
RemoveShapePlayersBySession(client, message) ==
  LET resolved == MapGet(sessionIdToPlayerId, client)
      playerId == IF resolved = Undefined THEN client ELSE resolved
  IN IF message.shapeId = Missing \/ playerId \notin DOMAIN players
     THEN players
     ELSE [players EXCEPT ![playerId] = removeShape(@, Value(message.shapeId))]

\* The entity store after handleRemoveShape(client, message).
RemoveShapePlayers(client, message) ==
  LET playerId == MapGet(sessionIdToPlayerId, client)
  IN IF message.shapeId = Missing \/ playerId = Undefined
        \/ playerId \notin DOMAIN players
     THEN players
     ELSE [players EXCEPT ![playerId] = removeShape(@, Value(message.shapeId))]

HandleRemoveShape(client, message) ==
  LET playerId == MapGet(sessionIdToPlayerId, client)
  IN /\ players' = RemoveShapePlayers(client, message)
     /\ outbox' = <<>>
     /\ justLeft' = NoDisconnect
     /\ UNCHANGED <<sessionIdToPlayerId, playerIdToSessionId, clients, now,
                    timers, validatorVars>>

\* /^#[0-9A-F]{6}$/i on a color given as its sequence of characters.
HexDigits == {"0", "1", "2", "3", "4", "5", "6", "7", "8", "9",
              "a", "b", "c", "d", "e", "f", "A", "B", "C", "D", "E", "F"}

IsHexColor(color) ==
  /\ Len(color) = 7
  /\ color[1] = "#"
  /\ \A i \in 2..7 : color[i] \in HexDigits

\* The code path handleChangeBlockColor takes.
ChangeBlockColorPath(client, message) ==
  LET playerId == MapGet(sessionIdToPlayerId, client)
  IN IF message.color = <<>> THEN "missing_color"
     ELSE IF ~IsHexColor(message.color) THEN "invalid_color"
     ELSE IF playerId = Undefined THEN "no_player_id"
     ELSE IF playerId \notin DOMAIN players THEN "player_not_found"
     ELSE IF Len(players[playerId].shapes) > 0 THEN "changed" ELSE "no_shapes"

\* Variant of ChangeBlockColorPlayers that recolors the shapes of every
\* player.
ChangeBlockColorPlayersEveryone(client, message) ==
  IF ChangeBlockColorPath(client, message) = "changed"
  THEN [p \in DOMAIN players |->
          [players[p] EXCEPT !.shapes =
             [i \in 1..Len(@) |-> setColor(@[i], message.color)]]]
  ELSE players

ChangeBlockColorPlayers(client, message) ==
  LET playerId == MapGet(sessionIdToPlayerId, client)
  IN IF ChangeBlockColorPath(client, message) = "changed"
     THEN [players EXCEPT ![playerId].shapes =
             [i \in 1..Len(@) |-> setColor(@[i], message.color)]]
     ELSE players

\* The broadcasts handleChangeBlockColor sends.
ChangeBlockColorOutbox(client, message) ==
  IF ChangeBlockColorPath(client, message) = "changed"
  THEN <<Broadcast("block_color_changed", clients,
                   [playerId |-> MapGet(sessionIdToPlayerId, client),
                    color |-> message.color])>>
  ELSE <<>>

HandleChangeBlockColor(client, message) ==
  /\ players' = ChangeBlockColorPlayers(client, message)
  /\ outbox' = ChangeBlockColorOutbox(client, message)
  /\ justLeft' = NoDisconnect
  /\ UNCHANGED <<sessionIdToPlayerId, playerIdToSessionId, clients, now,
                 timers, validatorVars>>


(* ---- scheduled maintenance ---- *)

margin == 100

isOutOfBounds(shape) ==
  \/ shape.x < -margin
  \/ shape.x > boundaryWidth + margin
  \/ shape.y < -margin
  \/ shape.y > boundaryHeight + margin

\* Math.random() * (boundaryWidth - 200) + 100, for a draw of fraction/100.
ResetX(fraction) == (fraction * (boundaryWidth - 200)) \div 100 + 100

\* The order in which state.players.forEach visits the players.
RECURSIVE PlayerOrder(_)
PlayerOrder(ids) ==
  IF ids = {} THEN <<>>
  ELSE LET first == CHOOSE id \in ids : TRUE
       IN <<first>> \o PlayerOrder(ids \ {first})

\* Outcomes of Math.random() for the reset position, in hundredths.
ResetFractions == {0, 99}

\* One draw for the shape of each player (a player of this room never has
\* more than one shape).
ResetDraws == [PlayerIds -> ResetFractions]

ResetShape(shape, fraction) ==
  IF isOutOfBounds(shape)
  THEN setVelocity(setPosition(shape, ResetX(fraction), boundaryHeight - 50,
                               Some(0)),
                   0, 0)
  ELSE shape

\* Variant of ResetBroadcasts that excludes the owner's connection, as the
\* relay of a client's own action does.
ResetBroadcastsExceptOwner(playerId, fraction) ==
  LET shapes == players[playerId].shapes
      out == SelectSeq(shapes, isOutOfBounds)
  IN [i \in 1..Len(out) |->
        Broadcast("physics_action",
                  clients \ {MapGet(playerIdToSessionId, playerId)},
                  [playerId |-> playerId,
                   shapeId |-> out[i].id,
                   action |-> [type |-> "position",
                               x |-> ResetX(fraction),
                               y |-> boundaryHeight - 50,
                               angle |-> 0,
                               velocity |-> Vector(0, 0),
                               timestamp |-> now]])]

\* The broadcasts of checkAndResetOutOfBoundsShapes for one player.
ResetBroadcasts(playerId, fraction) ==
  LET shapes == players[playerId].shapes
      out == SelectSeq(shapes, isOutOfBounds)
  IN [i \in 1..Len(out) |->
        Broadcast("physics_action", clients,
                  [playerId |-> playerId,
                   shapeId |-> out[i].id,
                   action |-> [type |-> "position",
                               x |-> ResetX(fraction),
                               y |-> boundaryHeight - 50,
                               angle |-> 0,
                               velocity |-> Vector(0, 0),
                               timestamp |-> now]])]

RECURSIVE AllResetBroadcasts(_, _)
AllResetBroadcasts(order, rnd) ==
  IF order = <<>> THEN <<>>
  ELSE ResetBroadcasts(Head(order), rnd[Head(order)])
       \o AllResetBroadcasts(Tail(order), rnd)

\* Variant of ResetPlayers that drops the shapes it finds out of bounds.
ResetPlayersDropping(rnd) ==
  [p \in DOMAIN players |->
     [players[p] EXCEPT !.shapes = SelectSeq(@, LAMBDA shape : ~isOutOfBounds(shape))]]

\* The entity store after checkAndResetOutOfBoundsShapes.
ResetPlayers(rnd) ==
  [p \in DOMAIN players |->
     [players[p] EXCEPT !.shapes = [i \in 1..Len(@) |-> ResetShape(@[i], rnd[p])]]]

checkAndResetOutOfBoundsShapes(rnd) ==
  /\ players' = ResetPlayers(rnd)
  /\ outbox' = AllResetBroadcasts(PlayerOrder(DOMAIN players), rnd)
  /\ justLeft' = NoDisconnect
  /\ UNCHANGED <<sessionIdToPlayerId, playerIdToSessionId, clients, now,
                 timers, validatorVars>>

\* Variant of playersToRemove that leaves out the test of the disconnected
\* flag.
playersToRemoveIgnoringStatus(ps, maxInactiveTime) ==
  {id \in DOMAIN ps : now - ps[id].lastActivity > maxInactiveTime}

\* PhysicsState.cleanupInactivePlayers: the ids it removes.
playersToRemove(ps, maxInactiveTime) ==
  {id \in DOMAIN ps : ps[id].disconnected /\ now - ps[id].lastActivity > maxInactiveTime}

cleanupInactivePlayers(ps, maxInactiveTime) ==
  [id \in DOMAIN ps \ playersToRemove(ps, maxInactiveTime) |-> ps[id]]

\* PhysicsRoom.update, on a tick that falls in its 16 ms logging window.
MaxInactiveMs == 300000

Update ==
  /\ now % 10000 < 16
  /\ players' = cleanupInactivePlayers(players, MaxInactiveMs)
  /\ outbox' = <<>>
  /\ justLeft' = NoDisconnect
  /\ UNCHANGED <<sessionIdToPlayerId, playerIdToSessionId, clients, now,
                 timers, validatorVars>>

(* ---- what the clients send ---- *)

NoSuchShapeId == <<"nobody", 0, 0>>

KnownShapeIds ==
  UNION {{players[p].shapes[i].id : i \in 1..Len(players[p].shapes)} : p \in DOMAIN players}

MessageShapeIds == {Some(id) : id \in KnownShapeIds \cup {NoSuchShapeId}}

\* Reported positions: beyond the 100 margin of the boundary tick but within
\* the 200 threshold, beyond the threshold on x, beyond it on y.
Points == {<<-150, 900>>, <<-250, 900>>, <<600, 2050>>}

MessageVelocity == Some([x |-> Some(60), y |-> Some(-60)])

ShapeDatas ==
  {[id |-> id, x |-> Some(pt[1]), y |-> Some(pt[2]), angle |-> Some(90),
    velocity |-> MessageVelocity] : id \in MessageShapeIds, pt \in Points}
  \cup
  {[id |-> id, x |-> Some(-150), y |-> Some(900), angle |-> Missing,
    velocity |-> MessageVelocity] : id \in MessageShapeIds}

ShapeUpdateMessages ==
  {[shapes |-> Missing], [shapes |-> Some(<<>>)]}
  \cup {[shapes |-> Some(<<d>>)] : d \in ShapeDatas}

PhysicsActions ==
  {[type |-> "position", shapeId |-> id, x |-> Some(pt[1]), y |-> Some(pt[2]),
    angle |-> Some(90), velocity |-> MessageVelocity] :
     id \in MessageShapeIds, pt \in Points}
  \cup
  {[type |-> "position", shapeId |-> id, x |-> Some(-150), y |-> Some(900),
    angle |-> Some(90), velocity |-> Missing] : id \in MessageShapeIds}
  \cup
  {[type |-> "impulse", shapeId |-> id, x |-> Missing, y |-> Missing,
    angle |-> Missing, velocity |-> v] :
     id \in MessageShapeIds, v \in {MessageVelocity, Missing}}
  \cup
  {[type |-> "impulse", shapeId |-> id, x |-> Some(-150), y |-> Some(900),
    angle |-> Missing, velocity |-> MessageVelocity] : id \in MessageShapeIds}
  \cup
  {[type |-> t, shapeId |-> id, x |-> Missing, y |-> Missing,
    angle |-> Missing, velocity |-> Missing] :
     t \in {"position", "spin"}, id \in MessageShapeIds}
  \cup
  {[type |-> t, shapeId |-> id, x |-> Missing, y |-> Missing,
    angle |-> Missing, velocity |-> Missing] :
     t \in {"impulse"}, id \in {Missing}}
  \cup
  {[type |-> "", shapeId |-> Some(NoSuchShapeId), x |-> Missing, y |-> Missing,
    angle |-> Missing, velocity |-> Missing]}

PhysicsActionMessages ==
  {[action |-> Missing]} \cup {[action |-> Some(a)] : a \in PhysicsActions}

RemoveShapeMessages == {[shapeId |-> id] : id \in MessageShapeIds \cup {Missing}}

ChangeBlockColorMessages ==
  {[color |-> c] : c \in {<<>>, <<"r", "e", "d">>,
                          <<"#", "F", "F", "0", "0", "0", "G">>,
                          <<"#", "F", "F", "0", "0", "0", "0">>}}


AdvanceTime ==
  \E d \in RoomTimeSteps :
    /\ now + d <= Horizon
    /\ now' = now + d
    /\ outbox' = <<>>
    /\ justLeft' = NoDisconnect
    /\ UNCHANGED <<players, sessionIdToPlayerId, playerIdToSessionId, clients,
                   timers, validatorVars>>

Init ==
  /\ players = EmptyMap
  /\ sessionIdToPlayerId = EmptyMap
  /\ playerIdToSessionId = EmptyMap
  /\ clients = {}
  /\ now = Epoch
  /\ timers = {}
  /\ outbox = <<>>
  /\ justLeft = NoDisconnect
  /\ playerStates = EmptyMap
  /\ lastUpdateTime = EmptyMap

Next ==
  \/ \E c \in Clients, opt \in PlayerIds \cup {Undefined}, rnd \in Draws :
       OnJoin(c, opt, rnd)
  \/ \E c \in Clients : OnLeave(c)
  \/ \E c \in Clients, m \in ShapeUpdateMessages : HandleShapeUpdate(c, m)
  \/ \E c \in Clients, m \in PhysicsActionMessages : HandlePhysicsAction(c, m)
  \/ \E c \in Clients, rnd \in Draws : HandleCreateShape(c, rnd)
  \/ \E c \in Clients, m \in RemoveShapeMessages : HandleRemoveShape(c, m)
  \/ \E c \in Clients, m \in ChangeBlockColorMessages : HandleChangeBlockColor(c, m)
  \/ \E rnd \in ResetDraws : checkAndResetOutOfBoundsShapes(rnd)
  \/ Update
  \/ AdvanceTime

Spec == Init /\ [][Next]_vars

(* ------------------------------------------------------------------ *)
(* The TypeScript room and schema                                      *)
(* ------------------------------------------------------------------ *)

\* Number of clock steps of the TypeScript room model and their length.
MaxTSTicks == 2
TSTimeSteps == {30000}
TSHorizon == Epoch + MaxTSTicks * 30000

\* Shape ids in play: Shape's constructor draws one, a shape_update entry
\* may carry any of them.
TSShapeIds == {"s1", "s2"}

GraceMs == 60000

\* new Shape(id, x, y)
TS_Shape(id, x, y) ==
  [id |-> id, x |-> x, y |-> y, angle |-> 0, velocity |-> Vector(0, 0),
   lastUpdate |-> now]

\* Shape.setPosition: here an angle of 0 is applied, only undefined is not.
TS_setPosition(shape, x, y, angle) ==
  [shape EXCEPT !.x = x, !.y = y,
                !.angle = IF angle = Missing THEN @ ELSE Value(angle),
                !.lastUpdate = now]

\* new Player(id)
TS_Player == [shapes |-> <<>>, disconnected |-> FALSE]

TS_addShape(player, shape) == [player EXCEPT !.shapes = Append(@, shape)]

TS_removeShape(player, shapeId) ==
  LET i == FindIndex(player.shapes, shapeId)
  IN IF i # 0 THEN [player EXCEPT !.shapes = Splice(@, i)] ELSE player

\* PhysicsState.createPlayer: always stores a new player under the id.
TS_createPlayer(ps, id) == MapSet(ps, id, TS_Player)

\* Ids no live shape carries.  Math.random().toString(36).substring(2, 9) is
\* modelled as a draw among these, so a generated id never repeats a live one.
FreeShapeIds ==
  TSShapeIds \ UNION {{players[p].shapes[i].id : i \in 1..Len(players[p].shapes)} :
                        p \in DOMAIN players}

\* PhysicsState.createShapeForPlayer(playerId) with the generated id and the
\* spawn position random * 800 + 100, random * 400 + 100.
TS_createShapeForPlayer(ps, playerId, id, fraction) ==
  IF playerId \notin DOMAIN ps
  THEN ps
  ELSE [ps EXCEPT ![playerId] =
          TS_addShape(@, TS_Shape(id, (fraction * 800) \div 100 + 100,
                                   (fraction * 400) \div 100 + 100))]

TS_markPlayerConnected(ps, id, connected) ==
  IF id \in DOMAIN ps
  THEN [ps EXCEPT ![id].disconnected = ~connected]
  ELSE ps

TSFrame == UNCHANGED <<sessionIdToPlayerId, playerIdToSessionId, justLeft,
                       validatorVars>>

TS_onJoin(client, id, fraction) ==
  /\ client \notin clients
  /\ id \in FreeShapeIds
  /\ players' = TS_createShapeForPlayer(TS_createPlayer(players, client),
                                        client, id, fraction)
  /\ clients' = clients \cup {client}
  /\ outbox' = <<>>
  /\ UNCHANGED <<now, timers>>
  /\ TSFrame

\* onLeave marks the player disconnected and schedules the removal callback
\* 60000 ms later; nothing ever clears the timeout.
TS_onLeave(client) ==
  /\ client \in clients
  /\ players' = TS_markPlayerConnected(players, client, FALSE)
  /\ timers' = timers \cup {[sessionId |-> client, due |-> now + GraceMs]}
  /\ clients' = clients \ {client}
  /\ outbox' = <<>>
  /\ UNCHANGED now
  /\ TSFrame

\* The callback of a due timeout.
TS_onTimeout(timer) ==
  /\ timer \in timers
  /\ timer.due <= now
  /\ players' = IF /\ timer.sessionId \in DOMAIN players
                   /\ players[timer.sessionId].disconnected
                THEN removePlayer(players, timer.sessionId)
                ELSE players
  /\ timers' = timers \ {timer}
  /\ outbox' = <<>>
  /\ UNCHANGED <<clients, now>>
  /\ TSFrame

\* One entry of message.shapes applied to the sender's player.
TS_ApplyShapeData(player, shapeData) ==
  IF ~validateShapeData(shapeData)
  THEN player
  ELSE LET i == FindIndex(player.shapes, Value(shapeData.id))
           velocity == Value(shapeData.velocity)
       IN IF i # 0
          THEN [player EXCEPT !.shapes[i] =
                  setVelocity(TS_setPosition(@, Value(shapeData.x),
                                             Value(shapeData.y), shapeData.angle),
                              Value(velocity.x), Value(velocity.y))]
          ELSE IF Len(player.shapes) >= MAX_SHAPES_PER_PLAYER
               THEN player
               ELSE TS_addShape(player,
                      [TS_Shape(Value(shapeData.id), Value(shapeData.x),
                                Value(shapeData.y))
                       EXCEPT !.angle = Value(shapeData.angle),
                              !.velocity = Vector(Value(velocity.x),
                                                  Value(velocity.y))])

RECURSIVE TS_ApplyShapeUpdates(_, _, _)
TS_ApplyShapeUpdates(player, shapes, i) ==
  IF i > Len(shapes)
  THEN player
  ELSE TS_ApplyShapeUpdates(TS_ApplyShapeData(player, shapes[i]), shapes, i + 1)

TS_handleShapeUpdate(client, message) ==
  /\ players' = IF message.shapes = Missing \/ client \notin DOMAIN players
                THEN players
                ELSE [players EXCEPT ![client] =
                        TS_ApplyShapeUpdates(@, Value(message.shapes), 1)]
  /\ outbox' = <<>>
  /\ UNCHANGED <<clients, now, timers>>
  /\ TSFrame

\* Where handlePhysicsAction ends: at one of its early returns or at the
\* broadcast after the switch.
TS_PhysicsActionPath(client, message) ==
  IF message.action = Missing
  THEN "invalid"
  ELSE LET action == Value(message.action)
       IN IF action.type = "" \/ action.shapeId = Missing
          THEN "invalid"
          ELSE IF client \notin DOMAIN players
          THEN "player_not_found"
          ELSE IF FindIndex(players[client].shapes, Value(action.shapeId)) = 0
          THEN "shape_not_found"
          ELSE IF action.type = "position"
          THEN IF IsNumber(action.x) /\ IsNumber(action.y)
               THEN "position" ELSE "invalid_position"
          ELSE IF action.type = "impulse"
          THEN IF /\ action.velocity # Missing
                  /\ IsNumber(Value(action.velocity).x)
                  /\ IsNumber(Value(action.velocity).y)
               THEN "impulse" ELSE "invalid_velocity"
          ELSE "unknown_type"

TS_ActedShape(shape, action) ==
  IF action.type = "position"
  THEN LET moved == TS_setPosition(shape, Value(action.x), Value(action.y),
                                   action.angle)
       IN IF action.velocity = Missing
          THEN moved
          ELSE setVelocity(moved, Value(Value(action.velocity).x),
                                  Value(Value(action.velocity).y))
  ELSE setVelocity(shape, Value(Value(action.velocity).x),
                          Value(Value(action.velocity).y))

TS_handlePhysicsAction(client, message) ==
  LET path == TS_PhysicsActionPath(client, message)
  IN /\ players' =
          IF path \in {"position", "impulse"}
          THEN LET action == Value(message.action)
                   i == FindIndex(players[client].shapes, Value(action.shapeId))
               IN [players EXCEPT ![client].shapes[i] = TS_ActedShape(@, action)]
          ELSE players
     /\ outbox' =
          IF path \in {"position", "impulse", "unknown_type"}
          THEN <<Broadcast("physics_action", clients \ {client},
                           [playerId |-> client,
                            shapeId |-> Value(Value(message.action).shapeId),
                            action |-> Value(message.action)])>>
          ELSE <<>>
     /\ UNCHANGED <<clients, now, timers>>
     /\ TSFrame

TS_handleCreateShape(client, id, fraction) ==
  /\ id \in FreeShapeIds
  /\ players' = IF /\ client \in DOMAIN players
                   /\ Len(players[client].shapes) < MAX_SHAPES_PER_PLAYER
                THEN TS_createShapeForPlayer(players, client, id, fraction)
                ELSE players
  /\ outbox' = <<>>
  /\ UNCHANGED <<clients, now, timers>>
  /\ TSFrame

TS_handleRemoveShape(client, message) ==
  /\ players' = IF \/ message.shapeId = Missing
                   \/ client \notin DOMAIN players
                   \/ Len(players[client].shapes) <= 1
                THEN players
                ELSE [players EXCEPT ![client] =
                        TS_removeShape(@, Value(message.shapeId))]
  /\ outbox' = <<>>
  /\ UNCHANGED <<clients, now, timers>>
  /\ TSFrame

\* Messages of the TypeScript room model.
TSMessageShapeIds == {Some(id) : id \in TSShapeIds}

TSShapeDatas ==
  {[id |-> id, x |-> Some(700), y |-> Some(200), angle |-> Some(90),
    velocity |-> MessageVelocity] : id \in TSMessageShapeIds}
  \cup
  {[id |-> Some("s1"), x |-> Some(700), y |-> Some(200), angle |-> Missing,
    velocity |-> MessageVelocity]}

TSShapeUpdateMessages ==
  {[shapes |-> Missing]} \cup {[shapes |-> Some(<<d>>)] : d \in TSShapeDatas}

TSPhysicsActions ==
  {[type |-> "position", shapeId |-> id, x |-> Some(700), y |-> Some(200),
    angle |-> Some(90), velocity |-> MessageVelocity] : id \in TSMessageShapeIds}
  \cup
  {[type |-> t, shapeId |-> Some("s1"), x |-> Missing, y |-> Missing,
    angle |-> Missing, velocity |-> Missing] : t \in {"impulse", "spin"}}

TSPhysicsActionMessages ==
  {[action |-> Missing]} \cup {[action |-> Some(a)] : a \in TSPhysicsActions}

TSRemoveShapeMessages == {[shapeId |-> id] : id \in TSMessageShapeIds \cup {Missing}}

\* The clock never steps over a pending timeout: the callback runs at its
\* due time, though other events of the same instant may run before it.
TSAdvanceTime ==
  \E d \in TSTimeSteps :
    /\ now + d <= TSHorizon
    /\ \A timer \in timers : now + d <= timer.due
    /\ now' = now + d
    /\ outbox' = <<>>
    /\ UNCHANGED <<players, clients, timers>>
    /\ TSFrame

NextTS ==
  \/ \E c \in Clients, id \in TSShapeIds, f \in SpawnFractions : TS_onJoin(c, id, f)
  \/ \E c \in Clients : TS_onLeave(c)
  \/ \E timer \in timers : TS_onTimeout(timer)
  \/ \E c \in clients, m \in TSShapeUpdateMessages : TS_handleShapeUpdate(c, m)
  \/ \E c \in clients, m \in TSPhysicsActionMessages : TS_handlePhysicsAction(c, m)
  \/ \E c \in clients, id \in TSShapeIds, f \in SpawnFractions :
       TS_handleCreateShape(c, id, f)
  \/ \E c \in clients, m \in TSRemoveShapeMessages : TS_handleRemoveShape(c, m)
  \/ TSAdvanceTime

SpecTS == Init /\ [][NextTS]_vars

(* ------------------------------------------------------------------ *)
(* StateValidator                                                       *)
(* ------------------------------------------------------------------ *)

\* Number of clock steps of the validator model and their length in
\* milliseconds.
MaxValidatorTicks == 3
ValidatorTimeSteps == {50}
ValidatorHorizon == Epoch + MaxValidatorTicks * 50

\* Reported positions lie on the line through the origin with direction
\* (3, 4), so that every distance between two of them is a whole number and
\* Math.sqrt and the divisions below are exact.
ReportedSteps == {0, 2, 4}
ValidatorShapeIds == {"a", "b"}

\* Math.sqrt on a perfect square.
Sqrt(n) == CHOOSE r \in 0..n : r * r = n

Min(a, b) == IF a < b THEN a ELSE b
Max(a, b) == IF a > b THEN a ELSE b

\* prevShapes?.find(s => s.id === shape.id)
PrevShape(prevShapes, id) ==
  IF prevShapes = Missing \/ FindIndex(Value(prevShapes), id) = 0
  THEN Missing
  ELSE Some(Value(prevShapes)[FindIndex(Value(prevShapes), id)])

\* Variant of InterpolatedShape that reports the previous position back
\* instead of an interpolated one.
RejectedShape(shape, prevShape, velocity, maxDelta, distance) ==
  [shape EXCEPT !.x = prevShape.x, !.y = prevShape.y, !.velocity = velocity]

\* The shape returned when the position change is too large.
InterpolatedShape(shape, prevShape, velocity, maxDelta, distance) ==
  [shape EXCEPT !.x = prevShape.x + ((shape.x - prevShape.x) * maxDelta) \div distance,
                !.y = prevShape.y + ((shape.y - prevShape.y) * maxDelta) \div distance,
                !.velocity = velocity]

\* The callback of shapes.map.  elapsed is now - lastUpdate in milliseconds,
\* so MAX_POSITION_CHANGE * deltaTime is MAX_POSITION_CHANGE * elapsed / 1000.
ValidatedShape(shape, prevShapes, elapsed) ==
  LET prev == PrevShape(prevShapes, shape.id)
  IN IF prev = Missing
     THEN shape
     ELSE LET prevShape == Value(prev)
              velocity == Vector(Min(Max(shape.velocity.x, -MAX_VELOCITY), MAX_VELOCITY),
                                 Min(Max(shape.velocity.y, -MAX_VELOCITY), MAX_VELOCITY))
              maxDelta == (MAX_POSITION_CHANGE * elapsed) \div 1000
              dx == shape.x - prevShape.x
              dy == shape.y - prevShape.y
              distance == Sqrt(dx * dx + dy * dy)
          IN IF distance > maxDelta
             THEN InterpolatedShape(shape, prevShape, velocity, maxDelta, distance)
             ELSE [shape EXCEPT !.velocity = velocity]

\* Variant of ValidatedShapes that keeps the remembered shapes the call does
\* not report.
ValidatedShapesKeepingOmitted(states, times, playerId, shapes, t) ==
  LET lastUpdate == IF playerId \in DOMAIN times THEN times[playerId] ELSE t
      prevShapes == IF playerId \in DOMAIN states
                    THEN Some(states[playerId]) ELSE Missing
      kept == IF prevShapes = Missing THEN <<>>
              ELSE SelectSeq(Value(prevShapes),
                             LAMBDA prev : FindIndex(shapes, prev.id) = 0)
  IN [i \in 1..Len(shapes) |-> ValidatedShape(shapes[i], prevShapes, t - lastUpdate)]
     \o kept

\* The value of validatedShapes in validateUpdate(playerId, shapes) called at
\* time t on a validator holding the maps states and times.
ValidatedShapes(states, times, playerId, shapes, t) ==
  LET lastUpdate == IF playerId \in DOMAIN times THEN times[playerId] ELSE t
      prevShapes == IF playerId \in DOMAIN states
                    THEN Some(states[playerId]) ELSE Missing
  IN [i \in 1..Len(shapes) |-> ValidatedShape(shapes[i], prevShapes, t - lastUpdate)]

\* validateUpdate(playerId, shapes): the validated shapes are stored and
\* returned.
validateUpdate(playerId, shapes) ==
  /\ playerStates' =
       MapSet(playerStates, playerId,
              ValidatedShapes(playerStates, lastUpdateTime, playerId, shapes, now))
  /\ lastUpdateTime' = MapSet(lastUpdateTime, playerId, now)
  /\ UNCHANGED <<roomVars, now, timers, outbox, justLeft>>

\* StateValidator.removePlayer
ValidatorRemovePlayer(playerId) ==
  /\ playerStates' = MapDelete(playerStates, playerId)
  /\ lastUpdateTime' = MapDelete(lastUpdateTime, playerId)
  /\ UNCHANGED <<roomVars, now, timers, outbox, justLeft>>

ValidatorAdvanceTime ==
  \E d \in ValidatorTimeSteps :
    /\ now + d <= ValidatorHorizon
    /\ now' = now + d
    /\ UNCHANGED <<roomVars, timers, outbox, justLeft, validatorVars>>

ReportedShapes ==
  {[id |-> id, x |-> 3 * k, y |-> 4 * k, velocity |-> Vector(60, -60)] :
     id \in ValidatorShapeIds, k \in ReportedSteps}

ReportedUpdates == {<<>>} \cup {<<shape>> : shape \in ReportedShapes}

NextValidator ==
  \/ \E p \in PlayerIds, shapes \in ReportedUpdates : validateUpdate(p, shapes)
  \/ \E p \in PlayerIds : ValidatorRemovePlayer(p)
  \/ ValidatorAdvanceTime

SpecValidator == Init /\ [][NextValidator]_vars

(* ------------------------------------------------------------------ *)
(* PhysicsState driven through its own methods                          *)
(* ------------------------------------------------------------------ *)

\* Number of clock steps of the store model, and the shapes a player of the
\* store model may be given beyond the cap of the room.
MaxStoreTicks == 1
MaxShapesBeyondCap == 1
StoreTimeSteps == {300000, 300001}
StoreHorizon == Epoch + MaxStoreTicks * 300001
StorePlayerIds == {"c1", "c2"}

StoreFrame == UNCHANGED <<sessionIdToPlayerId, playerIdToSessionId, clients,
                          timers, validatorVars>>

StoreCreatePlayer(playerId) ==
  /\ players' = createPlayer(players, playerId)
  /\ outbox' = <<>>
  /\ UNCHANGED <<now, justLeft>>
  /\ StoreFrame

StoreMarkPlayerConnected(playerId, connected) ==
  /\ players' = markPlayerConnected(players, playerId, connected)
  /\ outbox' = <<>>
  /\ UNCHANGED <<now, justLeft>>
  /\ StoreFrame

StoreCreateShapeForPlayer(playerId, rnd) ==
  /\ playerId \in DOMAIN players =>
       Len(players[playerId].shapes) < MAX_SHAPES_PER_PLAYER + MaxShapesBeyondCap
  /\ players' = createShapeForPlayer(players, playerId, Undefined, rnd)
  /\ outbox' = <<>>
  /\ UNCHANGED <<now, justLeft>>
  /\ StoreFrame

StoreRemovePlayer(playerId) ==
  /\ players' = removePlayer(players, playerId)
  /\ outbox' = <<>>
  /\ UNCHANGED <<now, justLeft>>
  /\ StoreFrame

StoreAdvanceTime ==
  \E d \in StoreTimeSteps :
    /\ now + d <= StoreHorizon
    /\ now' = now + d
    /\ outbox' = <<>>
    /\ UNCHANGED <<players, justLeft>>
    /\ StoreFrame

NextStore ==
  \/ \E p \in StorePlayerIds : StoreCreatePlayer(p)
  \/ \E p \in StorePlayerIds, connected \in BOOLEAN : StoreMarkPlayerConnected(p, connected)
  \/ \E p \in StorePlayerIds, rnd \in Draws : StoreCreateShapeForPlayer(p, rnd)
  \/ \E p \in StorePlayerIds : StoreRemovePlayer(p)
  \/ Update
  \/ StoreAdvanceTime

SpecStore == Init /\ [][NextStore]_vars

(* ---- the room with draws over the whole spawn band ---- *)

\* Math.random() at its least, in the middle and just below 1.
BandFractions == {0, 50, 99}
BandDraws == [suffix : RandomSuffixes, fraction : BandFractions, color : RandomColors]

NextSpawn ==
  \/ \E c \in Clients, opt \in PlayerIds \cup {Undefined}, rnd \in BandDraws :
       OnJoin(c, opt, rnd)
  \/ \E c \in Clients : OnLeave(c)
  \/ \E c \in Clients, rnd \in BandDraws : HandleCreateShape(c, rnd)
  \/ \E c \in Clients, m \in RemoveShapeMessages : HandleRemoveShape(c, m)
  \/ \E c \in Clients, m \in PhysicsActionMessages : HandlePhysicsAction(c, m)
  \/ \E rnd \in ResetDraws : checkAndResetOutOfBoundsShapes(rnd)

SpecSpawn == Init /\ [][NextSpawn]_vars

(* ---- the room under malformed messages ---- *)

\* An entry of the shapes array that is not an object (a number, a string):
\* every field read from it is undefined.
NonObjectShapeData ==
  [id |-> Missing, x |-> Missing, y |-> Missing, angle |-> Missing,
   velocity |-> Missing]

MalformedShapeDatas ==
  {NonObjectShapeData} \cup {d \in ShapeDatas : ~validateShapeData(d)}

MalformedShapeUpdateMessages ==
  {[shapes |-> Missing]} \cup {[shapes |-> Some(<<d>>)] : d \in MalformedShapeDatas}

\* A velocity object whose components are not numbers.
NonNumericVelocity == Some([x |-> Missing, y |-> Missing])

MalformedPhysicsActions ==
  {[type |-> "position", shapeId |-> id, x |-> Some(-150), y |-> Some(900),
    angle |-> Some(90), velocity |-> NonNumericVelocity] : id \in MessageShapeIds}
  \cup
  {[type |-> "impulse", shapeId |-> id, x |-> Missing, y |-> Missing,
    angle |-> Missing, velocity |-> NonNumericVelocity] : id \in MessageShapeIds}
  \cup
  {[type |-> t, shapeId |-> id, x |-> Missing, y |-> Missing,
    angle |-> Missing, velocity |-> Missing] :
     t \in {"position", "spin"}, id \in MessageShapeIds}

MalformedPhysicsActionMessages ==
  {[action |-> Missing]} \cup {[action |-> Some(a)] : a \in MalformedPhysicsActions}

MalformedRemoveShapeMessages == {[shapeId |-> Missing]}

NextMalformed ==
  \/ \E c \in Clients, opt \in PlayerIds \cup {Undefined}, rnd \in Draws :
       OnJoin(c, opt, rnd)
  \/ \E c \in Clients : OnLeave(c)
  \/ \E c \in Clients, m \in MalformedShapeUpdateMessages : HandleShapeUpdate(c, m)
  \/ \E c \in Clients, m \in MalformedPhysicsActionMessages : HandlePhysicsAction(c, m)
  \/ \E c \in Clients, m \in MalformedRemoveShapeMessages : HandleRemoveShape(c, m)
  \/ AdvanceTime

SpecMalformed == Init /\ [][NextMalformed]_vars

(* ---- the room's join and leave over a store holding several shapes ---- *)

\* The JS room itself never gives a player a second shape; onJoin nevertheless
\* handles a player that "somehow has more than one shape".  Here the store's
\* createShapeForPlayer(playerId, customShapeId) supplies such players.
MaxRejoinShapes == 3
\* Custom shape ids, shaped like the generated ones.
RejoinShapeIds == {<<"custom", 0, k>> : k \in 1..MaxRejoinShapes}

HeldShapeIds(player) == {player.shapes[i].id : i \in 1..Len(player.shapes)}

RejoinCreateShape(playerId, customShapeId, rnd) ==
  /\ playerId \in DOMAIN players
  /\ Len(players[playerId].shapes) < MaxRejoinShapes
  /\ customShapeId \notin HeldShapeIds(players[playerId])
  /\ players' = createShapeForPlayer(players, playerId, customShapeId, rnd)
  /\ outbox' = <<>>
  /\ UNCHANGED <<now, justLeft>>
  /\ StoreFrame

NextRejoin ==
  \/ \E c \in Clients, p \in PlayerIds \cup {Undefined}, rnd \in Draws : OnJoin(c, p, rnd)
  \/ \E c \in Clients : OnLeave(c)
  \/ \E c \in Clients, m \in RemoveShapeMessages : HandleRemoveShape(c, m)
  \/ \E p \in PlayerIds, id \in RejoinShapeIds, rnd \in Draws : RejoinCreateShape(p, id, rnd)

SpecRejoin == Init /\ [][NextRejoin]_vars

(* ---- shape_update messages of several entries over several shapes ---- *)

\* Reported positions: two within the 200 threshold, one beyond it.
BatchPoints == {<<-150, 900>>, <<100, 100>>, <<-250, 900>>}

BatchShapeDatas ==
  {[id |-> id, x |-> Some(pt[1]), y |-> Some(pt[2]), angle |-> Some(90),
    velocity |-> MessageVelocity] : id \in MessageShapeIds, pt \in BatchPoints}
  \cup
  {[id |-> id, x |-> Some(100), y |-> Some(100), angle |-> Missing,
    velocity |-> MessageVelocity] : id \in MessageShapeIds}
  \cup {NullShapeData}

BatchShapeUpdateMessages ==
  {[shapes |-> Some(<<d1, d2>>)] : d1 \in BatchShapeDatas, d2 \in BatchShapeDatas}

\* Shapes a player holds at most under SpecBatch.
MaxBatchShapes == 2

\* createShapeForPlayer(playerId, customShapeId) called on the store.
BatchCreateShape(playerId, rnd) ==
  /\ playerId \in DOMAIN players
  /\ Len(players[playerId].shapes) < MaxBatchShapes
  /\ players' = createShapeForPlayer(players, playerId,
                                      <<playerId, 0, Len(players[playerId].shapes)>>, rnd)
  /\ outbox' = <<>>
  /\ UNCHANGED <<now, justLeft>>
  /\ StoreFrame

NextBatch ==
  \/ \E c \in Clients, rnd \in Draws : OnJoin(c, Undefined, rnd)
  \/ \E p \in PlayerIds, rnd \in Draws : BatchCreateShape(p, rnd)
  \/ \E c \in Clients, m \in BatchShapeUpdateMessages : HandleShapeUpdate(c, m)
  \/ AdvanceTime

SpecBatch == Init /\ [][NextBatch]_vars


(* ------------------------------------------------------------------ *)
(* Properties of the JavaScript room                                   *)
(* ------------------------------------------------------------------ *)

\* A step in which the room handles one of the four shape-changing messages
\* of connection c.
ShapeMessageFrom(c) ==
  \/ \E m \in ShapeUpdateMessages : HandleShapeUpdate(c, m)
  \/ \E m \in PhysicsActionMessages : HandlePhysicsAction(c, m)
  \/ \E m \in RemoveShapeMessages : HandleRemoveShape(c, m)
  \/ \E m \in ChangeBlockColorMessages : HandleChangeBlockColor(c, m)

OwnsShape(playerId, shapeId) ==
  /\ playerId \in DOMAIN players
  /\ FindIndex(players[playerId].shapes, shapeId) # 0

\* The stores the room can hold after handling one shape_update,
\* physics_action, remove_shape or change_block_color message of connection
\* c: the right-hand sides of players' in the four handlers.
StoresAfterMessageFrom(c) ==
  {ShapeUpdatePlayers(c, m) : m \in ShapeUpdateMessages}
  \cup {PhysicsActionPlayers(c, m) : m \in PhysicsActionMessages}
  \cup {RemoveShapePlayers(c, m) : m \in RemoveShapeMessages}
  \cup {ChangeBlockColorPlayers(c, m) : m \in ChangeBlockColorMessages}

\* C1: a shape_update, physics_action, remove_shape or change_block_color
\* message on a connection that resolves to player B leaves every shape of
\* every other player A as it was: same shapes, same position, velocity,
\* angle, color and lastUpdate.  In every reachable state, whatever such
\* message a connection sends, the store the handler writes agrees with the
\* current store on the shape set of every player other than the sender's.
C1_OtherPlayersShapesUntouched ==
  \A c \in clients \cap DOMAIN sessionIdToPlayerId :
    \A after \in StoresAfterMessageFrom(c) :
      \A a \in DOMAIN players \ {sessionIdToPlayerId[c]} :
        /\ a \in DOMAIN after
        /\ after[a].shapes = players[a].shapes

\* C1 witness: players A and B both own a shape, B's connection has just had
\* a physics action accepted that moved B's shape off its spawn position, and
\* A's shape is still as created.
C1_Witness ==
  \E a \in DOMAIN players, b \in DOMAIN players :
    /\ a # b
    /\ Len(players[a].shapes) = 1 /\ Len(players[b].shapes) = 1
    /\ outbox # <<>>
    /\ outbox[1].type = "physics_action"
    /\ outbox[1].payload.playerId = b
    /\ players[b].shapes[1].x = -150
    /\ players[b].shapes[1].lastUpdate > players[a].shapes[1].lastUpdate
    /\ players[a].shapes[1].x = SpawnX(50)
    /\ players[a].shapes[1].velocity = Vector(0, 0)

\* The physics_action message names a shape that is not in the shape set of
\* the player the connection resolves to.
NamesShapeNotOwned(c, m) ==
  /\ m.action # Missing
  /\ Value(m.action).type # ""
  /\ Value(m.action).shapeId # Missing
  /\ c \in DOMAIN sessionIdToPlayerId
  /\ sessionIdToPlayerId[c] \in DOMAIN players
  /\ ~OwnsShape(sessionIdToPlayerId[c], Value(Value(m.action).shapeId))

\* C3: a physics_action naming a shape that is not in the sender's own shape
\* set, whether another player's or nobody's, leaves the entity store
\* unchanged and broadcasts nothing.  In every reachable state, for every
\* such action of every connection, the store handlePhysicsAction writes is
\* the current store and the list of broadcasts it sends is empty.
C3_ForeignShapeActionIsNoOp ==
  \A c \in clients, m \in PhysicsActionMessages :
    NamesShapeNotOwned(c, m) =>
      /\ PhysicsActionPlayers(c, m) = players
      /\ PhysicsActionOutbox(c, m) = <<>>

\* C3 witness: a connected sender whose player owns a shape while another
\* player owns the shape a position action of the sender names, reached by a
\* step that broadcast nothing.
C3_Witness ==
  \E c \in clients, m \in PhysicsActionMessages :
    /\ NamesShapeNotOwned(c, m)
    /\ Value(m.action).type = "position"
    /\ \E other \in DOMAIN players \ {sessionIdToPlayerId[c]} :
         OwnsShape(other, Value(Value(m.action).shapeId))
    /\ Len(players[sessionIdToPlayerId[c]].shapes) = 1
    /\ outbox = <<>>

\* C4: no connection changes or removes a shape of a player that is bound to
\* a different, still-connected connection, by a message or by leaving.
C4_NoControlOfConnectedPlayer ==
  [][\A c \in Clients :
       (ShapeMessageFrom(c) \/ OnLeave(c)) =>
         \A p \in DOMAIN players :
           (\E c2 \in clients \ {c} : MapGet(sessionIdToPlayerId, c2) = p) =>
              /\ p \in DOMAIN players'
              /\ players'[p].shapes = players[p].shapes]_vars

\* The arena rectangle expanded by 200 units on every side.
OutsideHardBounds(x, y) ==
  \/ x < -200 \/ x > boundaryWidth + 200
  \/ y < -200 \/ y > boundaryHeight + 200

\* C5: a movement report (a shape_update entry or a physics_action of type
\* position) on an owned shape whose proposed position lies outside the arena
\* expanded by 200 units leaves the shape unchanged and broadcasts nothing.
C5_OutOfBoundsReportRejected ==
  [][/\ \A c \in DOMAIN sessionIdToPlayerId, m \in PhysicsActionMessages :
          (/\ HandlePhysicsAction(c, m)
           /\ m.action # Missing
           /\ Value(m.action).type = "position"
           /\ Value(m.action).shapeId # Missing
           /\ OwnsShape(sessionIdToPlayerId[c], Value(Value(m.action).shapeId))
           /\ IsNumber(Value(m.action).x) /\ IsNumber(Value(m.action).y)
           /\ OutsideHardBounds(Value(Value(m.action).x), Value(Value(m.action).y)))
          => /\ players'[sessionIdToPlayerId[c]].shapes
                  = players[sessionIdToPlayerId[c]].shapes
             /\ outbox' = <<>>
     /\ \A c \in DOMAIN sessionIdToPlayerId, d \in ShapeDatas :
          (/\ HandleShapeUpdate(c, [shapes |-> Some(<<d>>)])
           /\ validateShapeData(d)
           /\ OwnsShape(sessionIdToPlayerId[c], Value(d.id))
           /\ OutsideHardBounds(Value(d.x), Value(d.y)))
          => /\ players'[sessionIdToPlayerId[c]].shapes
                  = players[sessionIdToPlayerId[c]].shapes
             /\ outbox' = <<>>]_vars

\* C6: both velocity components of every stored shape lie in [-50, 50].
C6_StoredVelocityBounded ==
  \A p \in DOMAIN players : \A i \in 1..Len(players[p].shapes) :
    /\ players[p].shapes[i].velocity.x >= -MAX_VELOCITY
    /\ players[p].shapes[i].velocity.x <= MAX_VELOCITY
    /\ players[p].shapes[i].velocity.y >= -MAX_VELOCITY
    /\ players[p].shapes[i].velocity.y <= MAX_VELOCITY

\* C8: when a join presents the playerId of the player that has just
\* disconnected (so within any grace window), the player's shape set after the
\* join (ids, positions, velocities) is the one it had before the disconnect.
C8_ReconnectKeepsShapeSet ==
  [][\A c \in Clients, p \in PlayerIds, rnd \in Draws :
       (OnJoin(c, p, rnd) /\ justLeft.playerId = p) =>
         /\ p \in DOMAIN players'
         /\ Snapshot(p, players'[p]).shapes = justLeft.shapes]_vars

\* C9: a disconnect of a connection bound to an Active player moves the
\* player to GracePeriod: it stays in the store with its shapes and is marked
\* disconnected.
C9_DisconnectStartsGracePeriod ==
  [][\A c \in DOMAIN sessionIdToPlayerId :
       (/\ OnLeave(c)
        /\ sessionIdToPlayerId[c] \in DOMAIN players
        /\ ~players[sessionIdToPlayerId[c]].disconnected) =>
         /\ sessionIdToPlayerId[c] \in DOMAIN players'
         /\ players'[sessionIdToPlayerId[c]].disconnected
         /\ players'[sessionIdToPlayerId[c]].shapes
              = players[sessionIdToPlayerId[c]].shapes]_vars

(* ------------------------------------------------------------------ *)
(* Properties of the TypeScript room                                   *)
(* ------------------------------------------------------------------ *)

\* C2: each live shape id appears in exactly one player's shape set: never
\* in the sets of two players, never twice in one set.
C2_ShapeIdInOneSet ==
  \A p \in DOMAIN players, q \in DOMAIN players :
    \A i \in 1..Len(players[p].shapes), j \in 1..Len(players[q].shapes) :
      players[p].shapes[i].id = players[q].shapes[j].id => (p = q /\ i = j)

\* The instant of the disconnect that scheduled the timeout.
DisconnectedAt(timer) == timer.due - GraceMs

\* C10: a player is removed by a grace-period timeout only when it has been
\* disconnected for the whole grace window: at the removal no disconnect of
\* that player is younger than the window, so the timeout of an earlier
\* disconnect never removes a player that reconnected and left again since.
C10_ExpiryOnlyAfterFullGrace ==
  [][\A timer \in timers :
       (/\ TS_onTimeout(timer)
        /\ timer.sessionId \in DOMAIN players
        /\ timer.sessionId \notin DOMAIN players') =>
         \A later \in timers :
           later.sessionId = timer.sessionId =>
             DisconnectedAt(later) + GraceMs <= now]_vars

(* ------------------------------------------------------------------ *)
(* Properties of StateValidator                                         *)
(* ------------------------------------------------------------------ *)

SquaredDistance(x0, y0, x1, y1) == (x1 - x0) * (x1 - x0) + (y1 - y0) * (y1 - y0)

\* The accepted position a of a report p1 against the previous accepted
\* position p0 after elapsed milliseconds, 100 * dt being elapsed / 10 units:
\* when p1 is farther than that from p0, a lies on the segment from p0 to p1
\* at exactly that distance; otherwise a is p1.
SoftClamped(p0, p1, a, elapsed) ==
  IF 100 * SquaredDistance(p0.x, p0.y, p1.x, p1.y) > elapsed * elapsed
  THEN /\ (a.x - p0.x) * (p1.y - p0.y) = (a.y - p0.y) * (p1.x - p0.x)
       /\ (a.x - p0.x) * (p1.x - p0.x) + (a.y - p0.y) * (p1.y - p0.y) >= 0
       /\ 100 * SquaredDistance(p0.x, p0.y, a.x, a.y) = elapsed * elapsed
       /\ elapsed = 0 => (a.x = p0.x /\ a.y = p0.y)
  ELSE a.x = p1.x /\ a.y = p1.y

\* C7: validateUpdate soft-clamp.  For every reported shape that has a
\* previous accepted position P0 in the validator's store, with proposed
\* position P1 and dt the time since the player's previous update, the
\* accepted position is on the segment from P0 to P1 at distance exactly
\* 100 * dt from P0 when |P1 - P0| > 100 * dt (P0 itself when dt = 0), and is
\* P1 otherwise.
C7_SoftClamp ==
  [][\A p \in DOMAIN playerStates, shapes \in ReportedUpdates :
       validateUpdate(p, shapes) =>
         \A i \in 1..Len(shapes) :
           LET prev == PrevShape(Some(playerStates[p]), shapes[i].id)
           IN prev # Missing =>
                SoftClamped(Value(prev), shapes[i], playerStates'[p][i],
                            now - lastUpdateTime[p])]_vars

\* C7 witness: the store holds an accepted position strictly between two
\* reportable positions, which only an interpolated report produces, and the
\* velocity of that report was clamped.
C7_Witness ==
  \E p \in DOMAIN playerStates :
    /\ Len(playerStates[p]) = 1
    /\ playerStates[p][1].x = 3 /\ playerStates[p][1].y = 4
    /\ playerStates[p][1].velocity = Vector(50, -50)
    /\ lastUpdateTime[p] = now

(* ------------------------------------------------------------------ *)
(* Removal of players                                                  *)
(* ------------------------------------------------------------------ *)

\* The player_removed broadcasts of a step that name player p.
RemovalNotices(out, p) ==
  {i \in 1..Len(out) : out[i].type = "player_removed" /\ out[i].payload.playerId = p}

\* C11: each permanent removal of a player emits exactly one player_removed
\* broadcast for that player id: a step that removes a player from the store
\* broadcasts exactly one notice for it, and a notice is broadcast only by a
\* step that removes the player it names.
C11_RemovalBroadcastsOnce ==
  [][/\ \A p \in DOMAIN players \ DOMAIN players' :
          Cardinality(RemovalNotices(outbox', p)) = 1
     /\ \A i \in 1..Len(outbox') :
          outbox'[i].type = "player_removed" =>
            outbox'[i].payload.playerId \in DOMAIN players \ DOMAIN players']_vars

\* The ids of the shapes of player p.
ShapeIdsOf(ps, p) == {ps[p].shapes[i].id : i \in 1..Len(ps[p].shapes)}

\* C12: when a player becomes Removed, in the resulting state its id is absent
\* from the entity store, none of its shapes exists under any player, and no
\* connection id in the session registry still resolves to it.
C12_RemovedPlayerLeavesNothing ==
  [][\A p \in DOMAIN players \ DOMAIN players' :
       /\ \A q \in DOMAIN players' : ShapeIdsOf(players', q) \cap ShapeIdsOf(players, p) = {}
       /\ \A c \in DOMAIN sessionIdToPlayerId' : sessionIdToPlayerId'[c] # p]_vars

\* C13: inactivity sweep.  A sweep removes every player that is disconnected
\* and whose last activity is more than 300 s in the past, and removes or
\* changes no other player: no connected player and no disconnected player
\* still inside the limit.
C13_SweepRemovesExactlyTheInactive ==
  [][Update =>
       \A p \in DOMAIN players :
         IF players[p].disconnected /\ now - players[p].lastActivity > 300000
         THEN p \notin DOMAIN players'
         ELSE p \in DOMAIN players' /\ players'[p] = players[p]]_vars

\* C13 witness: a sweep is due while one player is disconnected and past the
\* limit and another is connected and just as long without activity.
C13_Witness ==
  /\ now % 10000 < 16
  /\ \E p \in DOMAIN players, q \in DOMAIN players :
       /\ players[p].disconnected
       /\ now - players[p].lastActivity > 300000
       /\ ~players[q].disconnected
       /\ now - players[q].lastActivity > 300000

(* ------------------------------------------------------------------ *)
(* Boundary correction                                                 *)
(* ------------------------------------------------------------------ *)

\* Beyond the 2400 x 1800 arena by more than the margin of 100.
BeyondMargin(shape) ==
  shape.x < -100 \/ shape.x > 2500 \/ shape.y < -100 \/ shape.y > 1900

\* The correction broadcasts of a step for the shape with the given id.
CorrectionsOf(out, shapeId) ==
  {i \in 1..Len(out) : out[i].type = "physics_action" /\ out[i].payload.shapeId = shapeId}

\* The store and the broadcasts of a correction tick with the draws rnd: the
\* right-hand sides of players' and outbox' in checkAndResetOutOfBoundsShapes.
StoreAfterTick(rnd) == ResetPlayers(rnd)
BroadcastsOfTick(rnd) == AllResetBroadcasts(PlayerOrder(DOMAIN players), rnd)

\* What a correction tick does to every shape beyond the margin, the new x
\* lying between 100 and maxX.
CorrectedInto(maxX) ==
  \A rnd \in ResetDraws :
    \A p \in DOMAIN players : \A i \in 1..Len(players[p].shapes) :
      BeyondMargin(players[p].shapes[i]) =>
        LET after == StoreAfterTick(rnd)[p].shapes[i]
            out == BroadcastsOfTick(rnd)
            sent == CorrectionsOf(out, players[p].shapes[i].id)
        IN /\ after.x >= 100 /\ after.x <= maxX
           /\ after.y = 1750
           /\ after.velocity = Vector(0, 0)
           /\ Cardinality(sent) = 1
           /\ \A k \in sent : out[k].to = clients

\* C14 as stated: every shape beyond the margin when the tick runs is, after
\* the tick, at x in [100, 2200], y = 1750, velocity (0, 0), and exactly one
\* physics_action for it is broadcast to all participants, the owner included.
\* Stated in every reachable state, of the tick that would run there.
C14_CorrectedIntoStatedBand == CorrectedInto(2200)

\* C14 amended: the same with x in [100, 2300], the arena width less the
\* margin of 100 on either side.
C14_CorrectedIntoSpawnBand == CorrectedInto(2300)

\* C14 witness: a tick has just put a shape at y = 1750 with an x beyond 2200
\* and velocity (0, 0), and broadcast that correction to every connection,
\* the owner's among them.
C14_Witness ==
  \E p \in DOMAIN players :
    /\ Len(players[p].shapes) = 1
    /\ players[p].shapes[1].x > 2200
    /\ players[p].shapes[1].y = 1750
    /\ players[p].shapes[1].velocity = Vector(0, 0)
    /\ \E k \in CorrectionsOf(outbox, players[p].shapes[1].id) :
         /\ outbox[k].payload.action.x = players[p].shapes[1].x
         /\ outbox[k].to = clients
         /\ MapGet(playerIdToSessionId, p) \in clients

\* C15: a boundary correction tick creates and destroys nothing: the set of
\* players, each player's sequence of shape ids and each shape's color are
\* unchanged, and every shape within the arena expanded by 100 units keeps
\* its position, angle, velocity and lastUpdate and causes no broadcast.
\* Stated in every reachable state, of the tick that would run there.
C15_CorrectionOnlyRepositions ==
  \A rnd \in ResetDraws :
    /\ DOMAIN StoreAfterTick(rnd) = DOMAIN players
    /\ \A p \in DOMAIN players :
         /\ Len(StoreAfterTick(rnd)[p].shapes) = Len(players[p].shapes)
         /\ \A i \in 1..Len(players[p].shapes) :
              LET before == players[p].shapes[i]
                  after == StoreAfterTick(rnd)[p].shapes[i]
              IN /\ after.id = before.id
                 /\ after.color = before.color
                 /\ ~BeyondMargin(before) =>
                      /\ after = before
                      /\ CorrectionsOf(BroadcastsOfTick(rnd), before.id) = {}

\* C15 witness: a tick has just corrected the shape of one player while the
\* shape of another player, inside the expanded arena and with the velocity a
\* client gave it, caused no broadcast.
C15_Witness ==
  \E p \in DOMAIN players, q \in DOMAIN players :
    /\ p # q
    /\ Len(players[p].shapes) = 1 /\ Len(players[q].shapes) = 1
    /\ CorrectionsOf(outbox, players[p].shapes[1].id) # {}
    /\ outbox[1].payload.action.type = "position"
    /\ players[p].shapes[1].y = 1750
    /\ ~BeyondMargin(players[q].shapes[1])
    /\ players[q].shapes[1].velocity = Vector(60, -60)
    /\ CorrectionsOf(outbox, players[q].shapes[1].id) = {}

(* ------------------------------------------------------------------ *)
(* Shape cap                                                           *)
(* ------------------------------------------------------------------ *)

\* C16: each player owns at most MAX_SHAPES_PER_PLAYER shapes, and
\* createShapeForPlayer on the store changes nothing when the player is
\* missing or already at the cap.
C16_StoreEnforcesShapeCap ==
  [][/\ \A p \in DOMAIN players' :
          Len(players'[p].shapes) <= MAX_SHAPES_PER_PLAYER
     /\ \A p \in StorePlayerIds, rnd \in Draws :
          (/\ StoreCreateShapeForPlayer(p, rnd)
           /\ \/ p \notin DOMAIN players
              \/ Len(players[p].shapes) >= MAX_SHAPES_PER_PLAYER)
          => players' = players]_vars

(* ------------------------------------------------------------------ *)
(* Messages on a connection that resolves to no player                 *)
(* ------------------------------------------------------------------ *)

Unresolved(c) == MapGet(sessionIdToPlayerId, c) = Undefined

\* C17: a shape_update, physics_action, create_shape, remove_shape or
\* change_block_color message on a connection that resolves to no player
\* leaves the entity store as it is and sends nothing.
C17_UnresolvedConnectionIsIgnored ==
  \A c \in Clients :
    Unresolved(c) =>
      /\ \A m \in ShapeUpdateMessages : ShapeUpdatePlayers(c, m) = players
      /\ \A m \in PhysicsActionMessages :
           /\ PhysicsActionPlayers(c, m) = players
           /\ PhysicsActionOutbox(c, m) = <<>>
      /\ \A rnd \in Draws : CreateShapePlayers(c, rnd) = players
      /\ \A m \in RemoveShapeMessages : RemoveShapePlayers(c, m) = players
      /\ \A m \in ChangeBlockColorMessages :
           /\ ChangeBlockColorPlayers(c, m) = players
           /\ ChangeBlockColorOutbox(c, m) = <<>>

\* A connection resolves to no player while the store holds a player, with a
\* shape, under that connection's own session id.
C17_Witness ==
  \E c \in Clients :
    /\ Unresolved(c)
    /\ c \in DOMAIN players
    /\ Len(players[c].shapes) > 0

(* ------------------------------------------------------------------ *)
(* Relaying physics actions                                            *)
(* ------------------------------------------------------------------ *)

\* A physics_action of connection c that the room accepts: the connection
\* resolves to a stored player, the action names a shape of that player, and
\* it is a position with numeric coordinates or an impulse with a numeric
\* velocity.
AcceptedPhysicsAction(c, m) ==
  /\ m.action # Missing
  /\ LET a == Value(m.action)
         p == MapGet(sessionIdToPlayerId, c)
     IN /\ a.shapeId # Missing
        /\ p # Undefined
        /\ OwnsShape(p, Value(a.shapeId))
        /\ \/ a.type = "position" /\ IsNumber(a.x) /\ IsNumber(a.y)
           \/ /\ a.type = "impulse"
              /\ a.velocity # Missing
              /\ IsNumber(Value(a.velocity).x)
              /\ IsNumber(Value(a.velocity).y)

\* How many physics_action broadcasts of out are addressed to recipient r.
Deliveries(out, r) ==
  Cardinality({i \in DOMAIN out :
                 out[i].type = "physics_action" /\ r \in out[i].to})

\* C18: an accepted physics_action is sent exactly once to every connected
\* client other than the connection it came from, and not at all to that
\* connection.
C18_RelayedOnceToEveryOtherClient ==
  \A c \in Clients, m \in PhysicsActionMessages :
    AcceptedPhysicsAction(c, m) =>
      \A r \in clients :
        Deliveries(PhysicsActionOutbox(c, m), r) = IF r = c THEN 0 ELSE 1

\* A physics action has just been relayed to some, but not all, of the
\* connected clients.
C18_Witness ==
  \E i \in DOMAIN outbox :
    /\ outbox[i].type = "physics_action"
    /\ outbox[i].to # {}
    /\ outbox[i].to # clients

\* The shape a physics_action broadcast is about, as the store holds it.
StoredShape(b) ==
  LET shapes == players[b.payload.playerId].shapes
  IN shapes[FindIndex(shapes, b.payload.shapeId)]

\* A relayed action repeats the client's action, whose fields are optional;
\* a boundary correction is built by the room from plain numbers.
IsRelayed(b) == "shapeId" \in DOMAIN b.payload.action

CarriesStoredValues(b) ==
  LET a == b.payload.action
      shape == StoredShape(b)
  IN IF IsRelayed(b)
     THEN /\ IsNumber(a.x) => shape.x = Value(a.x)
          /\ IsNumber(a.y) => shape.y = Value(a.y)
          /\ (/\ a.velocity # Missing
              /\ IsNumber(Value(a.velocity).x)
              /\ IsNumber(Value(a.velocity).y))
             => shape.velocity = Vector(Value(Value(a.velocity).x),
                                        Value(Value(a.velocity).y))
     ELSE /\ shape.x = a.x
          /\ shape.y = a.y
          /\ shape.velocity = a.velocity

\* C19: the position and the velocity carried by a physics_action broadcast
\* are the ones the store holds for that shape when it is sent, and the
\* broadcast carries the server's timestamp.
C19_BroadcastCarriesStoredValues ==
  \A i \in DOMAIN outbox :
    outbox[i].type = "physics_action" =>
      /\ CarriesStoredValues(outbox[i])
      /\ "timestamp" \in DOMAIN outbox[i].payload.action
      /\ outbox[i].payload.action.timestamp = now

(* ------------------------------------------------------------------ *)
(* Joining under an existing player id                                 *)
(* ------------------------------------------------------------------ *)

\* C21: a join that presents the id of an existing player leaves that player
\* with exactly one shape: a new one if it had none, its only one if it had
\* one, its first one if it had several.
C21_RejoinLeavesOneShape ==
  \A c \in Clients \ clients, p \in DOMAIN players, rnd \in Draws :
    LET before == players[p].shapes
        after == JoinedPlayers(c, p, rnd)[p].shapes
    IN /\ Len(after) = 1
       /\ Len(before) >= 1 => after[1] = before[1]

(* ------------------------------------------------------------------ *)
(* Malformed messages                                                  *)
(* ------------------------------------------------------------------ *)

\* C22: a shape_update, physics_action or remove_shape with missing or
\* mistyped fields sends no broadcast and leaves the entity store as it is.
C22_MalformedInputIsDropped ==
  \A c \in Clients :
    /\ \A m \in MalformedPhysicsActionMessages :
         /\ PhysicsActionOutbox(c, m) = <<>>
         /\ PhysicsActionPlayers(c, m) = players
    /\ \A m \in MalformedRemoveShapeMessages : RemoveShapePlayers(c, m) = players
    /\ \A m \in MalformedShapeUpdateMessages : ShapeUpdatePlayers(c, m) = players

(* ------------------------------------------------------------------ *)
(* What a join establishes                                             *)
(* ------------------------------------------------------------------ *)

\* C23: after onJoin the joining connection resolves to a player that is in
\* the store, is marked connected and owns at least one shape; without a
\* playerId option that player carries the session id and did not exist
\* before the join.
C23_JoinYieldsConnectedPlayer ==
  [][\A c \in Clients, opt \in PlayerIds \cup {Undefined}, rnd \in Draws :
       OnJoin(c, opt, rnd) =>
         LET playerId == MapGet(sessionIdToPlayerId', c)
         IN /\ playerId \in DOMAIN players'
            /\ ~players'[playerId].disconnected
            /\ Len(players'[playerId].shapes) >= 1
            /\ opt = Undefined => playerId = c /\ c \notin DOMAIN players]_vars

(* ------------------------------------------------------------------ *)
(* change_block_color                                                  *)
(* ------------------------------------------------------------------ *)

BlockColorNotices(out) ==
  Cardinality({i \in DOMAIN out : out[i].type = "block_color_changed"})

\* A color that is not '#' and six hexadecimal digits changes nothing and
\* sends nothing.  A valid color from a connection that resolves to a stored
\* player recolors every shape of that player, leaves every other player as it
\* is, and sends one block_color_changed broadcast; a sender without shapes
\* gets noticesIfNoShapes broadcasts.
ColorChange(noticesIfNoShapes) ==
  \A c \in Clients, m \in ChangeBlockColorMessages :
    LET p == MapGet(sessionIdToPlayerId, c)
        after == ChangeBlockColorPlayers(c, m)
        out == ChangeBlockColorOutbox(c, m)
    IN IF ~IsHexColor(m.color)
       THEN after = players /\ out = <<>>
       ELSE (p # Undefined /\ p \in DOMAIN players) =>
              /\ DOMAIN after = DOMAIN players
              /\ Len(after[p].shapes) = Len(players[p].shapes)
              /\ \A i \in 1..Len(after[p].shapes) :
                   /\ after[p].shapes[i].color = m.color
                   /\ after[p].shapes[i].id = players[p].shapes[i].id
              /\ \A q \in DOMAIN players \ {p} : after[q] = players[q]
              /\ BlockColorNotices(out) =
                   IF Len(players[p].shapes) > 0 THEN 1 ELSE noticesIfNoShapes

\* C24: an invalid color changes no shape and sends nothing; a valid color
\* recolors every shape of the sender and no other shape, and sends one
\* block_color_changed broadcast.
C24_ValidColorAlwaysBroadcasts == ColorChange(1)

\* C24, amended: as above, with the one broadcast sent when the sender owns
\* at least one shape and none when it owns no shape.
C24_ValidColorBroadcastsIfShapes == ColorChange(0)

\* A color change has just been applied and broadcast while another player
\* holds a shape of a different color.
C24_Witness ==
  \E i \in DOMAIN outbox :
    /\ outbox[i].type = "block_color_changed"
    /\ LET p == outbox[i].payload.playerId
       IN /\ p \in DOMAIN players
          /\ Len(players[p].shapes) > 0
          /\ \A k \in 1..Len(players[p].shapes) :
               players[p].shapes[k].color = outbox[i].payload.color
          /\ \E q \in DOMAIN players \ {p} :
               /\ Len(players[q].shapes) > 0
               /\ players[q].shapes[1].color # outbox[i].payload.color

(* ------------------------------------------------------------------ *)
(* createPlayer on an existing id (TypeScript schema)                  *)
(* ------------------------------------------------------------------ *)

\* C25: createPlayer with an id the store already holds leaves the store as
\* it is (shapes and connection flag are not reset), so calling it twice
\* gives the same store as calling it once.
C25_CreatePlayerIdempotent ==
  \A id \in Clients :
    /\ id \in DOMAIN players => TS_createPlayer(players, id) = players
    /\ TS_createPlayer(TS_createPlayer(players, id), id) = TS_createPlayer(players, id)

(* ------------------------------------------------------------------ *)
(* remove_shape                                                        *)
(* ------------------------------------------------------------------ *)

\* C26: remove_shape naming a shape the sender does not hold changes no
\* player at all; naming a shape the sender holds removes that shape from the
\* sender's sequence, keeps its other shapes as they are and in order, and
\* leaves every other player as it is.
C26_RemoveShapeRemovesOnlyThatShape ==
  \A c \in Clients, m \in RemoveShapeMessages :
    LET p == MapGet(sessionIdToPlayerId, c)
        after == RemoveShapePlayers(c, m)
    IN (m.shapeId # Missing /\ p # Undefined /\ p \in DOMAIN players) =>
         IF Value(m.shapeId) \notin HeldShapeIds(players[p])
         THEN after = players
         ELSE /\ DOMAIN after = DOMAIN players
              /\ \A q \in DOMAIN players \ {p} : after[q] = players[q]
              /\ Len(after[p].shapes) = Len(players[p].shapes) - 1
              /\ after[p].shapes =
                   SelectSeq(players[p].shapes,
                             LAMBDA shape : shape.id # Value(m.shapeId))

\* A connection resolves to a player holding several shapes while another
\* player holds a shape too.
C26_Witness ==
  \E c \in DOMAIN sessionIdToPlayerId :
    LET p == sessionIdToPlayerId[c]
    IN /\ p \in DOMAIN players
       /\ Len(players[p].shapes) >= 2
       /\ \E q \in DOMAIN players \ {p} : Len(players[q].shapes) >= 1

(* ------------------------------------------------------------------ *)
(* Spawn band                                                          *)
(* ------------------------------------------------------------------ *)

InSpawnBand(shape) ==
  /\ shape.x >= 50
  /\ shape.x <= boundaryWidth - 50
  /\ shape.y = boundaryHeight - 50

\* The shape createShapeForPlayer appends for player p with the draws rnd.
CreatedShape(p, rnd) ==
  LET shapes == createShapeForPlayer(players, p, Undefined, rnd)[p].shapes
  IN shapes[Len(shapes)]

\* C27: every created shape lies in the spawn band (x at least 50 from either
\* edge, y = height - 50) and is not out of bounds for the boundary tick; a
\* shape that still lies in the band is left as it is by a tick, which sends
\* no correction for it.
C27_SpawnedShapeStaysPut ==
  /\ \A p \in DOMAIN players, rnd \in BandDraws :
       /\ InSpawnBand(CreatedShape(p, rnd))
       /\ ~isOutOfBounds(CreatedShape(p, rnd))
  /\ \A p \in DOMAIN players, tick \in ResetDraws :
       \A i \in 1..Len(players[p].shapes) :
         InSpawnBand(players[p].shapes[i]) =>
           /\ StoreAfterTick(tick)[p].shapes[i] = players[p].shapes[i]
           /\ CorrectionsOf(BroadcastsOfTick(tick), players[p].shapes[i].id) = {}

\* One player's shape sits at the left end of the spawn band while another
\* player's shape has been moved beyond the margin by its client.
C27_Witness ==
  \E p \in DOMAIN players, q \in DOMAIN players :
    /\ Len(players[p].shapes) > 0
    /\ players[p].shapes[1].x = 50
    /\ players[p].shapes[1].y = boundaryHeight - 50
    /\ Len(players[q].shapes) > 0
    /\ isOutOfBounds(players[q].shapes[1])

(* ------------------------------------------------------------------ *)
(* Speed bound across validateUpdate calls                             *)
(* ------------------------------------------------------------------ *)

ReportsShape(shapes, id) == \E i \in 1..Len(shapes) : shapes[i].id = id

\* The shape with the given id among the shapes a call accepted.
AcceptedShape(accepted, id) == accepted[FindIndex(accepted, id)]

\* The position q lies within 100 units per second of the position p, elapsed
\* milliseconds having passed: |q - p| <= elapsed / 10.
WithinSpeedBound(p, q, elapsed) ==
  100 * SquaredDistance(p.x, p.y, q.x, q.y) <= elapsed * elapsed

\* C28: two consecutive accepted positions of one shape id are at most 100
\* units per second of elapsed time apart, whether the next report of the
\* shape comes in the player's next update or after an update of that player
\* that left the shape out.
C28_SpeedBoundedAcrossUpdates ==
  \A p \in DOMAIN playerStates :
    \A k \in 1..Len(playerStates[p]) :
      LET last == playerStates[p][k]
          elapsed == now - lastUpdateTime[p]
      IN /\ \A next \in ReportedUpdates :
              ReportsShape(next, last.id) =>
                WithinSpeedBound(
                  last,
                  AcceptedShape(ValidatedShapes(playerStates, lastUpdateTime,
                                                p, next, now), last.id),
                  elapsed)
         /\ \A between \in ReportedUpdates, next \in ReportedUpdates :
              (~ReportsShape(between, last.id) /\ ReportsShape(next, last.id)) =>
                LET accepted == ValidatedShapes(playerStates, lastUpdateTime,
                                                p, between, now)
                IN WithinSpeedBound(
                     last,
                     AcceptedShape(
                       ValidatedShapes(MapSet(playerStates, p, accepted),
                                       MapSet(lastUpdateTime, p, now),
                                       p, next, now),
                       last.id),
                     elapsed)

(* ------------------------------------------------------------------ *)
(* One timestamp per player                                            *)
(* ------------------------------------------------------------------ *)

\* C29: every shape remembered for a player was accepted at that player's
\* lastUpdateTime.  A validateUpdate call sets the timestamp to the time of the
\* call and remembers exactly the shapes of that call; the remembered shapes
\* and the timestamp of a player change in no other step, and a player has
\* the one exactly when it has the other.
C29_RememberedShapesShareTimestamp ==
  [][\A p \in PlayerIds :
       /\ \A shapes \in ReportedUpdates :
            validateUpdate(p, shapes) =>
              /\ lastUpdateTime'[p] = now
              /\ Len(playerStates'[p]) = Len(shapes)
              /\ \A i \in 1..Len(shapes) : playerStates'[p][i].id = shapes[i].id
       /\ (/\ p \in DOMAIN playerStates'
           /\ (p \notin DOMAIN playerStates \/ playerStates'[p] # playerStates[p]))
          => \E shapes \in ReportedUpdates : validateUpdate(p, shapes)
       /\ (/\ p \in DOMAIN lastUpdateTime'
           /\ (p \notin DOMAIN lastUpdateTime \/ lastUpdateTime'[p] # lastUpdateTime[p]))
          => \E shapes \in ReportedUpdates : validateUpdate(p, shapes)
       /\ (p \in DOMAIN playerStates') = (p \in DOMAIN lastUpdateTime')]_vars

\* Two players hold remembered shapes with different timestamps, one of them
\* older than the current time, so that its next update is clamped with a
\* positive dt.
C29_Witness ==
  \E p \in DOMAIN playerStates, q \in DOMAIN playerStates :
    /\ Len(playerStates[p]) >= 1
    /\ Len(playerStates[q]) >= 1
    /\ lastUpdateTime[p] < lastUpdateTime[q]
    /\ lastUpdateTime[q] = now

(* ------------------------------------------------------------------ *)
(* Stored positions                                                    *)
(* ------------------------------------------------------------------ *)

\* C30: in every reachable state every stored shape lies within the arena
\* rectangle widened by 200 units on every side.
C30_StoredPositionsNearArena ==
  \A p \in DOMAIN players :
    \A i \in 1..Len(players[p].shapes) :
      /\ players[p].shapes[i].x >= -200
      /\ players[p].shapes[i].x <= boundaryWidth + 200
      /\ players[p].shapes[i].y >= -200
      /\ players[p].shapes[i].y <= boundaryHeight + 200

(* ------------------------------------------------------------------ *)
(* Session registry                                                    *)
(* ------------------------------------------------------------------ *)

\* C31: the two registry maps are inverses of each other, connection s being
\* bound to player p in the one exactly when p is bound to s in the other, so
\* that at most one connection is bound to each player id.
C31_RegistryMapsAreInverses ==
  \A s \in Clients, p \in PlayerIds :
    (MapGet(sessionIdToPlayerId, s) = p) <=> (MapGet(playerIdToSessionId, p) = s)

\* C32: every connection bound in the registry resolves to a player that is
\* in the entity store.
C32_NoDanglingBinding ==
  \A s \in DOMAIN sessionIdToPlayerId : sessionIdToPlayerId[s] \in DOMAIN players

(* ------------------------------------------------------------------ *)
(* Connection status in the JS room                                    *)
(* ------------------------------------------------------------------ *)

\* C33: in the JS room no stored player is ever marked disconnected, so the
\* inactivity sweep removes nobody.
C33_NoPlayerEverDisconnected ==
  /\ \A p \in DOMAIN players : ~players[p].disconnected
  /\ cleanupInactivePlayers(players, MaxInactiveMs) = players

\* A stored player has been idle for longer than the sweep's limit.
C33_Witness ==
  \E p \in DOMAIN players : now - players[p].lastActivity > MaxInactiveMs

(* ------------------------------------------------------------------ *)
(* One shape per player in the JS room                                 *)
(* ------------------------------------------------------------------ *)

\* C34: in the JS room every player owns at most one shape, and create_shape
\* from a connection that resolves to a stored player adds a shape exactly
\* when that player owns none.
C34_AtMostOneShape ==
  /\ \A p \in DOMAIN players : Len(players[p].shapes) <= 1
  /\ \A c \in DOMAIN sessionIdToPlayerId, rnd \in Draws :
       LET p == sessionIdToPlayerId[c]
           after == CreateShapePlayers(c, rnd)
       IN p \in DOMAIN players =>
            IF Len(players[p].shapes) = 0
            THEN Len(after[p].shapes) = 1
            ELSE after = players

\* A connection resolves to a stored player that owns no shape.
C34_Witness ==
  \E c \in DOMAIN sessionIdToPlayerId :
    /\ sessionIdToPlayerId[c] \in DOMAIN players
    /\ Len(players[sessionIdToPlayerId[c]].shapes) = 0

(* ------------------------------------------------------------------ *)
(* Updates and the shapes that exist                                    *)
(* ------------------------------------------------------------------ *)

\* The shape ids every player of the store ps holds.
ShapeSets(ps) == [p \in DOMAIN ps |-> HeldShapeIds(ps[p])]

\* C35: a shape_update or physics_action leaves the set of players and every
\* player's set of shape ids as they were, and a shape_update sends nothing.
C35_UpdatesKeepShapeSets ==
  [][\A c \in clients :
       /\ (\E m \in TSShapeUpdateMessages : TS_handleShapeUpdate(c, m))
            => ShapeSets(players') = ShapeSets(players) /\ outbox' = <<>>
       /\ (\E m \in TSPhysicsActionMessages : TS_handlePhysicsAction(c, m))
            => ShapeSets(players') = ShapeSets(players)]_vars

(* ---- properties of multi-entry shape_update messages ---- *)

\* An entry the room accepts from this player: valid, naming a shape the
\* player owns, with a position within the threshold.
EntryAccepted(player, shapeData) ==
  /\ shapeData # NullShapeData
  /\ validateShapeData(shapeData)
  /\ Value(shapeData.id) \in HeldShapeIds(player)
  /\ isWithinBounds(Value(shapeData.x), Value(shapeData.y))

\* C36: the entries of one shape_update message are processed independently
\* and in order: a shape named by no accepted entry is left as it was, and a
\* shape named by an accepted entry carries the position and velocity of the
\* last such entry and lastUpdate = now, whatever the other entries are.
C36_EntriesProcessedIndependently ==
  \A c \in Clients, m \in BatchShapeUpdateMessages :
    LET playerId == MapGet(sessionIdToPlayerId, c)
    IN (playerId # Undefined /\ playerId \in DOMAIN players) =>
         LET entries == Value(m.shapes)
             before == players[playerId]
             after == ShapeUpdatePlayers(c, m)[playerId]
         IN /\ Len(after.shapes) = Len(before.shapes)
            /\ \A k \in 1..Len(before.shapes) :
                 LET naming == {i \in 1..Len(entries) :
                                  /\ EntryAccepted(before, entries[i])
                                  /\ Value(entries[i].id) = before.shapes[k].id}
                 IN IF naming = {}
                    THEN after.shapes[k] = before.shapes[k]
                    ELSE LET last == entries[CHOOSE i \in naming :
                                               \A j \in naming : j <= i]
                         IN /\ after.shapes[k].x = Value(last.x)
                            /\ after.shapes[k].y = Value(last.y)
                            /\ after.shapes[k].velocity =
                                 Vector(Value(Value(last.velocity).x),
                                        Value(Value(last.velocity).y))
                            /\ after.shapes[k].lastUpdate = now

====
